---- MODULE Spec2Model ----
(***************************************************************************)
(* Bay Area News Digest: the story processor (process_digest.py) and the   *)
(* title normalisation of the feed ingestion (fetch_rss.py).               *)
(*                                                                         *)
(* Text is a sequence of one-character strings.  A regular expression of   *)
(* the keyword tables is a sequence of nodes; re.search is computed by     *)
(* following the sets of positions the nodes can reach.                    *)
(***************************************************************************)
EXTENDS Integers, Sequences, FiniteSets, TLC

\* ------------------------------------------------------------------ text
Letters == {"a","b","c","d","e","f","g","h","i","j","k","l","m",
            "n","o","p","q","r","s","t","u","v","w","x","y","z"}

Digits == {"0","1","2","3","4","5","6","7","8","9"}

Whitespace == {" ", "\t", "\n", "\r"}

\* str.lower() on ASCII letters
ToLower ==
  [c \in {"A","B","C","D","E","F","G","H","I","J","K","L","M",
          "N","O","P","Q","R","S","T","U","V","W","X","Y","Z"} |->
     CASE c = "A" -> "a" [] c = "B" -> "b" [] c = "C" -> "c" [] c = "D" -> "d"
       [] c = "E" -> "e" [] c = "F" -> "f" [] c = "G" -> "g" [] c = "H" -> "h"
       [] c = "I" -> "i" [] c = "J" -> "j" [] c = "K" -> "k" [] c = "L" -> "l"
       [] c = "M" -> "m" [] c = "N" -> "n" [] c = "O" -> "o" [] c = "P" -> "p"
       [] c = "Q" -> "q" [] c = "R" -> "r" [] c = "S" -> "s" [] c = "T" -> "t"
       [] c = "U" -> "u" [] c = "V" -> "v" [] c = "W" -> "w" [] c = "X" -> "x"
       [] c = "Y" -> "y" [] c = "Z" -> "z"]

lower(s) == [k \in 1..Len(s) |-> IF s[k] \in DOMAIN ToLower THEN ToLower[s[k]] ELSE s[k]]

\* \w of the re module, on lowercased text
IsWord(c) == c \in Letters \cup Digits \cup {"_"}

\* ------------------------------------------------- regular expressions
Str(s) == [op |-> "str", s |-> s]

In(set) == [op |-> "in", set |-> set]

Dot == [op |-> "dot"]

WB == [op |-> "wb"]

Rep(lo, hi, body) == [op |-> "rep", lo |-> lo, hi |-> hi, body |-> body]

Alt(alts) == [op |-> "alt", alts |-> alts]

\* \b at position i (between character i-1 and character i)
AtBoundary(t, i) == (i > 1 /\ IsWord(t[i-1])) # (i <= Len(t) /\ IsWord(t[i]))

RECURSIVE NodeEnds(_, _, _)
RECURSIVE SeqEnds(_, _, _)
RECURSIVE RepEnds(_, _, _, _, _)
\* positions after node n, started at a position of S, in the lowercased text t
NodeEnds(n, t, S) ==
  CASE n.op = "str" ->
         {j + Len(n.s) : j \in {i \in S : /\ i + Len(n.s) - 1 <= Len(t)
                                          /\ t[i] = n.s[1]
                                          /\ SubSeq(t, i, i + Len(n.s) - 1) = n.s}}
    [] n.op = "in"  -> {j + 1 : j \in {i \in S : i <= Len(t) /\ t[i] \in n.set}}
    [] n.op = "dot" -> {j + 1 : j \in {i \in S : i <= Len(t) /\ t[i] # "\n"}}
    [] n.op = "wb"  -> {i \in S : AtBoundary(t, i)}
    [] n.op = "rep" -> RepEnds(n.body, n.lo, n.hi, t, S)
    [] n.op = "alt" -> UNION {SeqEnds(n.alts[k], t, S) : k \in DOMAIN n.alts}

SeqEnds(nodes, t, S) ==
  IF nodes = <<>> \/ S = {} THEN S
  ELSE SeqEnds(Tail(nodes), t, NodeEnds(Head(nodes), t, S))

\* body{lo,hi}; hi = -1 is unbounded
RepEnds(body, lo, hi, t, S) ==
  IF S = {} THEN {}
  ELSE IF lo > 0 THEN RepEnds(body, lo - 1, IF hi = -1 THEN -1 ELSE hi - 1, t, SeqEnds(body, t, S))
  ELSE IF hi = 0 THEN S
  ELSE IF hi = -1 THEN S \cup RepEnds(body, 0, -1, t, SeqEnds(body, t, S) \ S)
  ELSE S \cup RepEnds(body, 0, hi - 1, t, SeqEnds(body, t, S))

\* re.search(pattern, text, re.IGNORECASE)
re_search(pattern, text) == SeqEnds(pattern, lower(text), 1..(Len(text) + 1)) # {}

TechEconomyPatterns ==
  <<
    <<WB, Str(<<"a">>), Rep(0, 1, <<Str(<<".">>)>>), Str(<<"i">>), Rep(0, 1, <<Str(<<".">>)>>), WB>>,
    <<WB, Str(<<"a","r","t","i","f","i","c","i","a","l"," ","i","n","t","e","l","l","i","g","e","n","c","e">>), WB>>,
    <<WB, Str(<<"s","t","a","r","t","u","p">>)>>,
    <<WB, Str(<<"l","a","y","o","f","f">>)>>,
    <<WB, Str(<<"v","e","n","t","u","r","e"," ","c","a","p","i","t","a","l">>), WB>>,
    <<WB, Str(<<"v","c">>), In(Whitespace)>>,
    <<WB, Str(<<"i","p","o">>), WB>>,
    <<WB, Str(<<"t","e","c","h"," ","w","o","r","k","e","r">>)>>,
    <<WB, Str(<<"s","i","l","i","c","o","n"," ","v","a","l","l","e","y">>), WB>>,
    <<WB, Str(<<"g","i","g"," ","e","c","o","n","o","m","y">>), WB>>,
    <<WB, Str(<<"a","u","t","o","m","a","t","i","o","n">>), WB>>,
    <<WB, Str(<<"h","o","u","s","i","n","g"," ","c","o","s","t">>)>>,
    <<WB, Str(<<"c","o","s","t"," ","o","f"," ","l","i","v","i","n","g">>), WB>>,
    <<WB, Str(<<"w","a","g","e">>), WB>>,
    <<WB, Str(<<"j","o","b"," ","m","a","r","k","e","t">>), WB>>,
    <<WB, Str(<<"e","c","o","n","o","m">>)>>,
    <<WB, Str(<<"i","n","f","l","a","t","i","o","n">>), WB>>,
    <<WB, Str(<<"g","o","o","g","l","e">>), WB>>,
    <<WB, Str(<<"m","e","t","a">>), WB>>,
    <<WB, Str(<<"a","p","p","l","e">>), WB>>,
    <<WB, Str(<<"o","p","e","n","a","i">>), WB>>,
    <<WB, Str(<<"a","n","t","h","r","o","p">>)>>,
    <<WB, Str(<<"s","a","l","e","s","f","o","r","c","e">>), WB>>,
    <<WB, Str(<<"u","b","e","r">>), WB>>,
    <<WB, Str(<<"l","y","f","t">>), WB>>,
    <<WB, Str(<<"a","i","r","b","n","b">>), WB>>,
    <<WB, Str(<<"n","v","i","d","i","a">>), WB>>,
    <<WB, Str(<<"t","e","c","h"," ","i","n","d","u","s","t","r">>)>>,
    <<WB, Str(<<"c","r","y","p","t","o">>)>>,
    <<WB, Str(<<"b","l","o","c","k","c","h","a","i","n">>), WB>>,
    <<WB, Str(<<"f","u","n","d","i","n","g"," ","r","o","u","n","d">>), WB>>,
    <<WB, Str(<<"u","n","i","c","o","r","n">>), WB>>,
    <<WB, Str(<<"v","a","l","u","a","t","i","o","n">>), WB>>,
    <<WB, Str(<<"d","o","w","n","t","o","w","n">>), Rep(0, 15, <<Dot>>), Str(<<"r","e","c","o","v","e","r">>)>>,
    <<WB, Str(<<"o","f","f","i","c","e">>), Rep(0, 10, <<Dot>>), Str(<<"v","a","c","a","n","c">>)>>,
    <<WB, Str(<<"r","e","t","u","r","n">>), Rep(0, 10, <<Dot>>), Str(<<"o","f","f","i","c","e">>), WB>>,
    <<WB, Str(<<"r","e","m","o","t","e"," ","w","o","r","k">>)>>,
    <<WB, Str(<<"g","i","g">>), Rep(1, -1, <<In(Whitespace)>>), Str(<<"w","o","r","k">>)>>,
    <<WB, Str(<<"f","o","r","e","c","l","o","s">>)>>,
    <<WB, Str(<<"j","o","b"," ","l","o","s","s">>)>>,
    <<WB, Str(<<"j","o","b","s">>), WB>>,
    <<WB, Str(<<"h","i","r","i","n","g">>), WB>>,
    <<WB, Str(<<"w","o","r","k","f","o","r","c","e">>), WB>>,
    <<WB, Str(<<"d","a","t","a"," ","c","e","n","t","e","r">>)>>,
    <<WB, Str(<<"e","n","e","r","g","y"," ","c","a","p","a","c","i","t","y">>), WB>>
  >>

HousingDisplacementPatterns ==
  <<
    <<WB, Str(<<"h","o","u","s","i","n","g">>), WB>>,
    <<WB, Str(<<"r","e","n","t">>), WB>>,
    <<WB, Str(<<"e","v","i","c","t">>)>>,
    <<WB, Str(<<"g","e","n","t","r","i","f","i","c">>)>>,
    <<WB, Str(<<"z","o","n">>), Alt(<<<<Str(<<"e">>)>>, <<Str(<<"i","n","g">>)>>>>), WB>>,
    <<WB, Str(<<"h","o","m","e","l","e","s","s">>)>>,
    <<WB, Str(<<"t","e","n","a","n","t">>)>>,
    <<WB, Str(<<"l","a","n","d","l","o","r","d">>)>>,
    <<WB, Str(<<"a","f","f","o","r","d","a","b">>)>>,
    <<WB, Str(<<"d","i","s","p","l","a","c","e">>)>>,
    <<WB, Str(<<"s","h","e","l","t","e","r">>), WB>>,
    <<WB, Str(<<"e","n","c","a","m","p","m","e","n","t">>)>>,
    <<WB, Str(<<"u","n","h","o","u","s","e","d">>), WB>>,
    <<WB, Str(<<"p","r","o","p","e","r","t","y"," ","t","a","x">>), WB>>,
    <<WB, Str(<<"r","e","n","t"," ","c","o","n","t","r","o","l">>), WB>>,
    <<WB, Str(<<"p","u","b","l","i","c"," ","h","o","u","s","i","n","g">>), WB>>,
    <<WB, Str(<<"s","e","c","t","i","o","n"," ","8">>), WB>>,
    <<WB, Str(<<"a","d","u">>), WB>>,
    <<WB, Str(<<"n","i","m","b","y">>), WB>>,
    <<WB, Str(<<"y","i","m","b","y">>), WB>>,
    <<WB, Str(<<"m","o","d","u","l","a","r">>), Rep(1, -1, <<In(Whitespace)>>), Str(<<"h","o","m","e">>)>>,
    <<WB, Str(<<"p","e","r","m","i","t">>), WB, Rep(0, -1, <<Dot>>), WB, Str(<<"h","o","u","s","i","n","g">>), WB>>,
    <<WB, Str(<<"h","o","m","e">>), Rep(0, 1, <<Dot>>), Str(<<"b","u","y","e","r">>)>>,
    <<WB, Str(<<"c","o","m","m","u","n","i","t","y"," ","l","a","n","d"," ","t","r","u","s","t">>), WB>>,
    <<WB, Str(<<"i","n","t","e","r","i","m"," ","h","o","u","s","i","n","g">>), WB>>,
    <<WB, Str(<<"r","e","a","l"," ","e","s","t","a","t","e">>), WB>>,
    <<WB, Str(<<"c","o","n","d","o">>)>>,
    <<WB, Str(<<"r","e","s","i","d","e","n","t","i","a","l"," ","u","n","i","t">>)>>
  >>

ClimateEnvironmentPatterns ==
  <<
    <<WB, Str(<<"w","i","l","d","f","i","r","e">>)>>,
    <<WB, Str(<<"d","r","o","u","g","h","t">>), WB>>,
    <<WB, Str(<<"w","a","t","e","r">>), WB, Rep(0, -1, <<Dot>>), WB, Str(<<"s","u","p","p","l","y">>), WB>>,
    <<WB, Str(<<"s","e","a"," ","l","e","v","e","l">>), WB>>,
    <<WB, Str(<<"e","m","i","s","s","i","o","n">>)>>,
    <<WB, Str(<<"p","o","l","l","u","t">>)>>,
    <<WB, Str(<<"c","l","i","m","a","t","e">>), WB>>,
    <<WB, Str(<<"e","n","v","i","r","o","n","m","e","n","t">>)>>,
    <<WB, Str(<<"f","l","o","o","d">>)>>,
    <<WB, Str(<<"a","i","r"," ","q","u","a","l","i","t","y">>), WB>>,
    <<WB, Str(<<"s","m","o","k","e">>), WB>>,
    <<WB, Str(<<"f","i","r","e"," ","s","e","a","s","o","n">>), WB>>,
    <<WB, Str(<<"r","e","n","e","w","a","b","l","e">>), WB>>,
    <<WB, Str(<<"s","o","l","a","r">>), WB>>,
    <<WB, Str(<<"e","l","e","c","t","r","i","c"," ","v","e","h","i","c","l","e">>), WB>>,
    <<WB, Str(<<"c","o","a","s","t","a","l"," ","e","r","o","s","i","o","n">>), WB>>,
    <<WB, Str(<<"w","e","t","l","a","n","d">>)>>,
    <<WB, Str(<<"r","e","s","t","o","r","a","t","i","o","n">>), WB>>,
    <<WB, Str(<<"p","g","&","e">>), WB>>,
    <<WB, Str(<<"p","o","w","e","r"," ","g","r","i","d">>), WB>>,
    <<WB, Str(<<"b","l","a","c","k","o","u","t">>), WB>>,
    <<WB, Str(<<"c","o","n","t","a","m","i","n","a","t">>)>>,
    <<WB, Str(<<"t","o","x","i","c">>), WB>>,
    <<WB, Str(<<"k","i","n","g"," ","t","i","d","e">>), WB>>,
    <<WB, Str(<<"w","a","t","e","r","s","h","e","d">>), WB>>,
    <<WB, Str(<<"s","t","o","r","m","w","a","t","e","r">>), WB>>,
    <<WB, Str(<<"c","a","r","b","o","n">>), WB>>,
    <<WB, Str(<<"n","a","t","i","v","e"," ","p","l","a","n","t">>)>>,
    <<WB, Str(<<"r","e","e","f">>), WB>>,
    <<WB, Str(<<"c","o","n","s","e","r","v","a","t","i","o","n">>), WB>>,
    <<WB, Str(<<"s","u","s","t","a","i","n","a","b">>)>>,
    <<WB, Str(<<"f","e","m","a">>), WB>>,
    <<WB, Str(<<"n","o","a","a">>), WB>>,
    <<WB, Str(<<"p","o","l","l","i","n","a","t">>)>>,
    <<WB, Str(<<"o","r","g","a","n","i","c">>), WB>>,
    <<WB, Str(<<"a","g","r","i","c","u","l","t","u","r">>)>>,
    <<WB, Str(<<"r","e","f","i","n","e","r","y">>), WB>>,
    <<WB, Str(<<"m","a","r","i","n","e"," ","r","e","s","e","r","v","e">>), WB>>
  >>

GovernancePowerPatterns ==
  <<
    <<WB, Str(<<"c","i","t","y"," ","c","o","u","n","c","i","l">>), WB>>,
    <<WB, Str(<<"m","a","y","o","r">>), WB>>,
    <<WB, Str(<<"p","o","l","i","c","e">>), WB>>,
    <<WB, Str(<<"b","u","d","g","e","t">>), WB>>,
    <<WB, Str(<<"b","a","l","l","o","t">>), WB>>,
    <<WB, Str(<<"m","e","a","s","u","r","e"," ">>), In(Letters), WB>>,
    <<WB, Str(<<"r","e","c","a","l","l">>), WB>>,
    <<WB, Str(<<"e","l","e","c","t","i","o","n">>)>>,
    <<WB, Str(<<"s","u","p","e","r","v","i","s","o","r">>)>>,
    <<WB, Str(<<"d","i","s","t","r","i","c","t"," ","a","t","t","o","r","n","e","y">>), WB>>,
    <<WB, Str(<<"c","o","r","r","u","p","t">>)>>,
    <<WB, Str(<<"t","r","a","n","s","p","a","r","e","n","c">>)>>,
    <<WB, Str(<<"a","c","c","o","u","n","t","a","b">>)>>,
    <<WB, Str(<<"p","u","b","l","i","c"," ","s","a","f","e","t">>)>>,
    <<WB, Str(<<"c","r","i","m","e">>), WB>>,
    <<WB, Str(<<"p","r","o","s","e","c","u","t","o","r">>), WB>>,
    <<WB, Str(<<"j","a","i","l">>), WB>>,
    <<WB, Str(<<"p","r","i","s","o","n">>), WB>>,
    <<WB, Str(<<"b","a","r","t">>), WB>>,
    <<WB, Str(<<"m","u","n","i">>), WB>>,
    <<WB, Str(<<"c","a","l","t","r","a","i","n">>), WB>>,
    <<WB, Str(<<"t","r","a","n","s","i","t">>), WB>>,
    <<WB, Str(<<"s","c","h","o","o","l"," ","b","o","a","r","d">>), WB>>,
    <<WB, Str(<<"s","c","h","o","o","l"," ","d","i","s","t","r","i","c","t">>), WB>>,
    <<WB, Str(<<"e","d","u","c","a","t","i","o","n">>), WB>>,
    <<WB, Str(<<"p","u","b","l","i","c"," ","h","e","a","l","t","h">>), WB>>,
    <<WB, Str(<<"g","o","v","e","r","n","a","n">>)>>,
    <<WB, Str(<<"l","e","g","i","s","l","a","t">>)>>,
    <<WB, Str(<<"t","o","w","n"," ","h","a","l","l">>), WB>>,
    <<WB, Str(<<"c","o","u","n","t","y"," ","b","o","a","r","d">>), WB>>,
    <<WB, Str(<<"p","l","a","n","n","i","n","g"," ","c","o","m","m","i","s","s","i","o","n">>), WB>>,
    <<WB, Str(<<"t","a","x"," ","m","e","a","s","u","r","e">>), WB>>,
    <<WB, Str(<<"s","h","e","r","i","f","f">>), WB>>,
    <<WB, Str(<<"i","m","m","i","g","r","a">>)>>,
    <<WB, Str(<<"i","c","e">>), WB>>,
    <<WB, Str(<<"f","e","d","e","r","a","l">>), WB>>,
    <<WB, Str(<<"g","o","v","e","r","n","o","r">>), WB>>,
    <<WB, Str(<<"c","o","n","g","r","e","s","s">>)>>,
    <<WB, Str(<<"s","a","l","e","s"," ","t","a","x">>), WB>>,
    <<WB, Str(<<"s","t","a","f","f","i","n","g">>), WB>>,
    <<WB, Str(<<"s","c","h","o","o","l"," ","c","l","o","s">>)>>,
    <<WB, Str(<<"s","t","r","i","k","e">>), WB>>,
    <<WB, Str(<<"s","a","n","c","t","u","a","r","y">>), WB>>,
    <<WB, Str(<<"m","e","d","i","-","c","a","l">>), WB>>,
    <<WB, Str(<<"r","e","d","i","s","t","r","i","c">>)>>
  >>

NATIONAL_KEYWORDS ==
  <<
    <<WB, Str(<<"n","a","t","i","o","n">>), Alt(<<<<Str(<<"a","l">>)>>, <<Str(<<"w","i","d","e">>)>>>>), WB>>,
    <<WB, Str(<<"f","e","d","e","r","a","l">>), WB>>,
    <<WB, Str(<<"c","o","n","g","r","e","s","s">>), WB>>,
    <<WB, Str(<<"w","h","i","t","e"," ","h","o","u","s","e">>), WB>>,
    <<WB, Str(<<"s","u","p","r","e","m","e"," ","c","o","u","r","t">>), WB>>,
    <<WB, Str(<<"p","r","e","c","e","d","e","n","t">>)>>,
    <<WB, Str(<<"f","i","r","s","t">>), Rep(0, 25, <<Dot>>), Alt(<<<<Str(<<"n","a","t","i","o","n">>)>>, <<Str(<<"c","o","u","n","t","r","y">>)>>, <<Str(<<"s","t","a","t","e">>)>>, <<Str(<<"c","a","l","i","f","o","r","n","i","a">>)>>>>), WB>>,
    <<WB, Str(<<"a","c","r","o","s","s">>), Rep(0, 15, <<Dot>>), Str(<<"c","o","u","n","t","r","y">>), WB>>,
    <<WB, Str(<<"m","o","d","e","l">>), Rep(0, 15, <<Dot>>), Alt(<<<<Str(<<"f","o","r">>)>>, <<Str(<<"a","c","r","o","s","s">>)>>>>), WB>>,
    <<WB, Str(<<"l","a","n","d","m","a","r","k">>), WB>>,
    <<WB, Str(<<"b","i","l","l","i","o","n">>), WB>>,
    <<WB, Str(<<"t","r","i","l","l","i","o","n">>), WB>>,
    <<WB, Str(<<"s","t","a","t","e">>), Rep(0, 1, <<Str(<<"w","i","d","e">>)>>), Rep(1, -1, <<In(Whitespace)>>), Str(<<"l","a","w">>), WB>>,
    <<WB, Str(<<"r","e","g","u","l","a","t">>)>>,
    <<WB, Str(<<"i","m","m","i","g","r","a">>)>>,
    <<WB, Str(<<"s","a","n","c","t","u","a","r","y">>), WB>>,
    <<WB, Str(<<"l","a","y","o","f","f">>), Rep(0, 20, <<Dot>>), Rep(3, -1, <<In(Digits)>>)>>,
    <<WB, Rep(1, 3, <<In(Digits)>>), Rep(0, 1, <<Str(<<",">>)>>), Rep(3, 3, <<In(Digits)>>), Rep(1, -1, <<In(Whitespace)>>), Alt(<<<<Str(<<"j","o","b","s">>)>>, <<Str(<<"w","o","r","k","e","r","s">>)>>>>), WB>>,
    <<WB, Str(<<"a","m","e","n","d","m","e","n","t">>), WB>>,
    <<WB, Str(<<"c","o","n","s","t","i","t","u","t","i","o","n">>)>>,
    <<WB, Str(<<"c","i","v","i","l"," ","r","i","g","h","t","s">>), WB>>,
    <<WB, Str(<<"f","i","r","s","t">>), Rep(0, 15, <<Dot>>), Alt(<<<<Str(<<"c","i","t","y">>)>>, <<Str(<<"c","o","u","n","t","y">>)>>, <<Str(<<"m","u","n","i","c","i","p","a","l","i","t","y">>)>>>>), WB>>,
    <<WB, Str(<<"p","i","l","o","t"," ","p","r","o","g","r","a","m">>), WB>>,
    <<WB, Str(<<"c","o","u","l","d">>), Rep(0, 20, <<Dot>>), Alt(<<<<Str(<<"s","p","r","e","a","d">>)>>, <<Str(<<"e","x","p","a","n","d">>)>>, <<Str(<<"r","e","p","l","i","c","a","t","e">>)>>>>), WB>>,
    <<WB, Str(<<"f","e","m","a">>), WB>>,
    <<WB, Str(<<"n","o","a","a">>), WB>>,
    <<WB, Str(<<"f","u","n","d","i","n","g"," ","c","u","t">>)>>,
    <<WB, Str(<<"g","o","v","e","r","n","o","r">>), WB, Rep(0, -1, <<Dot>>), WB, Str(<<"r","a","c","e">>), WB>>,
    <<WB, Str(<<"w","o","r","l","d"," ","c","u","p">>), WB>>,
    <<WB, Str(<<"s","u","p","e","r"," ","b","o","w","l">>), WB>>
  >>

ENTERPRISE_SIGNALS ==
  <<
    <<2, <<WB, Str(<<"i","n","v","e","s","t","i","g","a","t">>)>>>>,
    <<2, <<WB, Str(<<"e","x","c","l","u","s","i","v","e">>), WB>>>>,
    <<2, <<WB, Str(<<"e","x","p","o","s">>), In({"e"} \cup {"é"})>>>>,
    <<2, <<WB, Str(<<"u","n","c","o","v","e","r","e">>), Rep(0, 1, <<Str(<<"d">>)>>), WB>>>>,
    <<2, <<WB, Str(<<"r","e","v","e","a","l">>), Rep(0, 1, <<Str(<<"s">>)>>), WB>>>>,
    <<2, <<WB, Str(<<"o","b","t","a","i","n","e","d">>), Rep(1, -1, <<In(Whitespace)>>), Alt(<<<<Str(<<"b","y">>)>>, <<Str(<<"t","h","r","o","u","g","h">>)>>, <<Str(<<"v","i","a">>)>>>>), WB>>>>,
    <<2, <<WB, Str(<<"r","e","c","o","r","d","s">>), Rep(1, -1, <<In(Whitespace)>>), Alt(<<<<Str(<<"s","h","o","w">>)>>, <<Str(<<"r","e","v","e","a","l">>)>>, <<Str(<<"o","b","t","a","i","n","e","d">>)>>>>), WB>>>>,
    <<2, <<WB, Str(<<"p","u","b","l","i","c"," ","r","e","c","o","r","d","s">>), WB>>>>,
    <<2, <<WB, Str(<<"d","o","c","u","m","e","n","t","s">>), Rep(1, -1, <<In(Whitespace)>>), Alt(<<<<Str(<<"s","h","o","w">>)>>, <<Str(<<"r","e","v","e","a","l">>)>>, <<Str(<<"o","b","t","a","i","n","e","d">>)>>>>), WB>>>>,
    <<1, <<WB, Str(<<"a","c","c","o","r","d","i","n","g"," ","t","o">>), Rep(1, -1, <<In(Whitespace)>>), Alt(<<<<Str(<<"r","e","c","o","r","d","s">>)>>, <<Str(<<"d","o","c","u","m","e","n","t","s">>)>>, <<Str(<<"d","a","t","a">>)>>, <<Str(<<"f","i","l","i","n","g","s">>)>>>>), WB>>>>,
    <<2, <<WB, Str(<<"a","c","c","o","u","n","t","a","b">>)>>>>,
    <<2, <<WB, Str(<<"w","h","i","s","t","l","e","b","l","o","w">>)>>>>,
    <<1, <<WB, Str(<<"a","u","d","i","t">>), WB>>>>,
    <<1, <<WB, Str(<<"o","v","e","r","s","i","g","h","t">>), WB>>>>,
    <<1, <<WB, Str(<<"m","i","s","c","o","n","d","u","c","t">>), WB>>>>,
    <<1, <<WB, Str(<<"a","l","l","e","g","a","t","i","o","n">>)>>>>,
    <<1, <<WB, Str(<<"f","r","a","u","d">>), WB>>>>,
    <<1, <<WB, Str(<<"c","o","r","r","u","p","t">>)>>>>,
    <<1, <<WB, Str(<<"w","i","t","h","h","o","l","d">>)>>>>,
    <<1, <<WB, Str(<<"t","r","a","n","s","p","a","r","e","n","c">>)>>>>,
    <<1, <<WB, Str(<<"n","e","p","o","t","i","s">>)>>>>,
    <<2, <<WB, Str(<<"d","a","t","a">>), Rep(1, -1, <<In(Whitespace)>>), Alt(<<<<Str(<<"s","h","o","w">>), Rep(0, 1, <<Str(<<"s">>)>>)>>, <<Str(<<"r","e","v","e","a","l">>), Rep(0, 1, <<Str(<<"s">>)>>)>>, <<Str(<<"a","n","a","l","y","s","i","s">>)>>>>), WB>>>>,
    <<1, <<WB, Str(<<"a","n","a","l","y","s","i","s">>), Rep(1, -1, <<In(Whitespace)>>), Alt(<<<<Str(<<"o","f">>)>>, <<Str(<<"b","y">>)>>, <<Str(<<"s","h","o","w">>), Rep(0, 1, <<Str(<<"s">>)>>)>>, <<Str(<<"f","i","n","d">>), Rep(0, 1, <<Str(<<"s">>)>>)>>>>), WB>>>>,
    <<1, <<WB, Str(<<"s","t","u","d","y">>), Rep(1, -1, <<In(Whitespace)>>), Alt(<<<<Str(<<"f","i","n","d">>), Rep(0, 1, <<Str(<<"s">>)>>)>>, <<Str(<<"s","h","o","w">>), Rep(0, 1, <<Str(<<"s">>)>>)>>, <<Str(<<"r","a","n","k">>), Rep(0, 1, <<Str(<<"s">>)>>)>>>>), WB>>>>,
    <<1, <<WB, Str(<<"r","a","n","k">>), Rep(0, 1, <<Str(<<"s">>)>>), WB, Rep(0, -1, <<Dot>>), WB, Alt(<<<<Str(<<"l","e","a","s","t">>)>>, <<Str(<<"m","o","s","t">>)>>, <<Str(<<"w","o","r","s","t">>)>>, <<Str(<<"b","e","s","t">>)>>, <<Str(<<"f","i","r","s","t">>)>>, <<Str(<<"l","a","s","t">>)>>>>), WB>>>>,
    <<1, <<WB, Str(<<"a","c","c","o","r","d","i","n","g"," ","t","o">>), Rep(1, -1, <<In(Whitespace)>>), Alt(<<<<Str(<<"a">>)>>, <<Str(<<"a","n">>)>>, <<Str(<<"t","h","e">>)>>>>), Rep(1, -1, <<In(Whitespace)>>), Rep(0, 1, <<Str(<<"n","e","w">>), Rep(1, -1, <<In(Whitespace)>>)>>), Alt(<<<<Str(<<"s","t","u","d","y">>)>>, <<Str(<<"r","e","p","o","r","t">>)>>, <<Str(<<"a","n","a","l","y","s","i","s">>)>>, <<Str(<<"s","u","r","v","e","y">>)>>>>), WB>>>>,
    <<1, <<WB, Str(<<"i","n","-","d","e","p","t","h">>), WB>>>>,
    <<1, <<WB, Str(<<"d","e","e","p"," ","d","i","v","e">>), WB>>>>,
    <<1, <<WB, Str(<<"l","o","n","g">>), Rep(0, 1, <<Dot>>), Str(<<"r","e","a","d">>), WB>>>>,
    <<1, <<WB, Str(<<"r","e","p","o","r","t">>), Rep(0, 1, <<Str(<<"i","n","g">>)>>), Rep(1, -1, <<In(Whitespace)>>), Alt(<<<<Str(<<"b","y">>)>>, <<Str(<<"f","r","o","m">>)>>>>), WB>>>>,
    <<1, <<WB, Str(<<"p","r","o","f","i","l","e">>), Rep(0, 1, <<In({"s"} \cup {"d"})>>), WB>>>>,
    <<1, <<WB, Str(<<"p","a","r","a","d","o","x">>), WB>>>>,
    <<1, <<WB, Str(<<"b","r","e","a","k","t","h","r","o","u","g","h">>), WB>>>>,
    <<1, <<WB, Str(<<"w","h","y">>), WB, Rep(0, -1, <<Dot>>), WB, Alt(<<<<Str(<<"a","r","e">>)>>, <<Str(<<"i","s">>)>>, <<Str(<<"d","o">>)>>, <<Str(<<"d","o","e","s">>)>>, <<Str(<<"d","i","d">>)>>, <<Str(<<"h","a","s">>)>>, <<Str(<<"h","a","v","e">>)>>, <<Str(<<"c","a","n">>)>>>>), WB>>>>,
    <<1, <<WB, Str(<<"h","o","w">>), WB, Rep(0, -1, <<Dot>>), WB, Alt(<<<<Str(<<"a","r","e">>)>>, <<Str(<<"i","s">>)>>, <<Str(<<"d","o">>)>>, <<Str(<<"d","o","e","s">>)>>, <<Str(<<"d","i","d">>)>>, <<Str(<<"h","a","s">>)>>, <<Str(<<"h","a","v","e">>)>>, <<Str(<<"c","a","n">>)>>>>), WB>>>>,
    <<1, <<WB, Str(<<"c","o","u","l","d">>), WB, Rep(0, -1, <<Dot>>), WB, Alt(<<<<Str(<<"r","e","s","h","a","p","e">>)>>, <<Str(<<"t","r","a","n","s","f","o","r","m">>)>>, <<Str(<<"c","h","a","n","g","e">>)>>, <<Str(<<"s","i","g","n","a","l">>)>>, <<Str(<<"m","e","a","n">>)>>>>), WB>>>>,
    <<1, <<WB, Str(<<"r","a","i","s","e">>), Rep(0, 1, <<Str(<<"s">>)>>), Rep(1, -1, <<In(Whitespace)>>), Alt(<<<<Str(<<"q","u","e","s","t","i","o","n">>), Rep(0, 1, <<Str(<<"s">>)>>)>>, <<Str(<<"c","o","n","c","e","r","n">>), Rep(0, 1, <<Str(<<"s">>)>>)>>, <<Str(<<"a","l","a","r","m">>)>>>>), WB>>>>,
    <<1, <<WB, Str(<<"i","m","p","l","i","c","a","t","i","o","n">>)>>>>,
    <<1, <<WB, Str(<<"s","h","i","f","t","i","n">>), Rep(0, 1, <<Str(<<"g">>)>>), WB, Rep(0, -1, <<Dot>>), WB, Alt(<<<<Str(<<"l","a","n","d","s","c","a","p","e">>)>>, <<Str(<<"d","y","n","a","m","i","c">>)>>, <<Str(<<"e","q","u","a","t","i","o","n">>)>>, <<Str(<<"c","a","l","c","u","l","u","s">>)>>>>), WB>>>>,
    <<1, <<WB, Str(<<"c","e","n","t","e","r"," ","f","o","r"," ","i","n","v","e","s","t","i","g","a","t","i","v","e">>), WB>>>>,
    <<1, <<WB, Str(<<"r","e","v","e","a","l">>), WB>>>>,
    <<1, <<WB, Str(<<"m","a","r","k","u","p">>), WB>>>>
  >>

\* THEME_KEYWORDS.items(), in insertion order
THEME_KEYWORDS ==
  << [name |-> "Tech & Economy",         patterns |-> TechEconomyPatterns],
     [name |-> "Housing & Displacement", patterns |-> HousingDisplacementPatterns],
     [name |-> "Climate & Environment",  patterns |-> ClimateEnvironmentPatterns],
     [name |-> "Governance & Power",     patterns |-> GovernancePowerPatterns] >>

ENTERPRISE_THRESHOLD == 3

\* ------------------------------------------------------- Python values
PyNone == [type |-> "NoneType"]

PyStr(s) == [type |-> "str", s |-> s]

PyInt(n) == [type |-> "int", n |-> n]

\* str(x) inside an f-string
format(x) == IF x.type = "NoneType" THEN "None" ELSE x.s

\* ---------------------------------------------------- texts of the pool
TitleFire == "Fire Crews Battle Blaze in Oakland Hills"

TitleFireShout == "FIRE crews battle blaze in Oakland hills!!"

TitleRezoning == "City Council Approves New Housing Development After Years of Debate Over Rezoning"

TitleParking == "City Council Approves New Housing Development After Years of Debate Over Parking"

TitleExclusive == "Exclusive: Leaked Records Reveal City Spent $40 Million Without Oversight"

TitleRuling == "Federal Immigration Ruling Puts FEMA and NOAA Funding at Risk"

TitleLandmark == "Landmark Federal Immigration Case Puts a Billion in FEMA, NOAA Aid at Risk"

TitleCongress == "Congress Weighs Landmark Amendment as Billion in Federal Aid Stalls"

TitleMayor == "Mayor, Police and City Council Clash Over Housing Budget"

SummaryEmpty == PyStr("")

SummaryAudit == PyStr("An exclusive audit.")

SummaryTenants == PyStr("Tenants and landlords fear eviction as rent, zoning and affordable housing fights grow.")

PubFresh == PyStr("2024-01-20T10:00:00+00:00")

PubWest == PyStr("2024-01-20T09:00:00-05:00")

PubZulu == PyStr("2024-01-20T10:00:00Z")

PubTwoDays == PyStr("2024-01-18T12:00:00Z")

PubThree == PyStr("2024-01-17T11:00:00Z")

PubFive == PyStr("2024-01-15T00:00:00Z")

PubEight == PyStr("2024-01-12T12:00:00Z")

PubTen == PyStr("2024-01-10T12:00:00Z")

PubFuture == PyStr("2024-01-25T12:00:00Z")

PubNaive == PyStr("2024-01-19T10:00:00")

PubWords == PyStr("yesterday")

\* the characters of the strings above and of str(None)
Chars ==
  (TitleFire :>
     <<"F","i","r","e"," ","C","r","e","w","s"," ","B","a","t","t","l","e"," ","B","l","a","z","e"," ","i","n"," ","O","a","k","l","a","n","d"," ","H","i","l","l","s">>)
  @@ (TitleFireShout :>
     <<"F","I","R","E"," ","c","r","e","w","s"," ","b","a","t","t","l","e"," ","b","l","a","z","e"," ","i","n"," ","O","a","k","l","a","n","d"," ","h","i","l","l","s","!","!">>)
  @@ (TitleRezoning :>
     <<"C","i","t","y"," ","C","o","u","n","c","i","l"," ","A","p","p","r","o","v","e","s"," ","N","e","w"," ","H","o","u","s","i","n","g"," ","D","e","v","e","l","o","p","m","e","n","t"," ","A","f","t","e","r"," ","Y","e","a","r","s"," ","o","f"," ","D","e","b","a","t","e"," ","O","v","e","r"," ","R","e","z","o","n","i","n","g">>)
  @@ (TitleParking :>
     <<"C","i","t","y"," ","C","o","u","n","c","i","l"," ","A","p","p","r","o","v","e","s"," ","N","e","w"," ","H","o","u","s","i","n","g"," ","D","e","v","e","l","o","p","m","e","n","t"," ","A","f","t","e","r"," ","Y","e","a","r","s"," ","o","f"," ","D","e","b","a","t","e"," ","O","v","e","r"," ","P","a","r","k","i","n","g">>)
  @@ (TitleExclusive :>
     <<"E","x","c","l","u","s","i","v","e",":"," ","L","e","a","k","e","d"," ","R","e","c","o","r","d","s"," ","R","e","v","e","a","l"," ","C","i","t","y"," ","S","p","e","n","t"," ","$","4","0"," ","M","i","l","l","i","o","n"," ","W","i","t","h","o","u","t"," ","O","v","e","r","s","i","g","h","t">>)
  @@ (TitleRuling :>
     <<"F","e","d","e","r","a","l"," ","I","m","m","i","g","r","a","t","i","o","n"," ","R","u","l","i","n","g"," ","P","u","t","s"," ","F","E","M","A"," ","a","n","d"," ","N","O","A","A"," ","F","u","n","d","i","n","g"," ","a","t"," ","R","i","s","k">>)
  @@ (TitleLandmark :>
     <<"L","a","n","d","m","a","r","k"," ","F","e","d","e","r","a","l"," ","I","m","m","i","g","r","a","t","i","o","n"," ","C","a","s","e"," ","P","u","t","s"," ","a"," ","B","i","l","l","i","o","n"," ","i","n"," ","F","E","M","A",","," ","N","O","A","A"," ","A","i","d"," ","a","t"," ","R","i","s","k">>)
  @@ (TitleCongress :>
     <<"C","o","n","g","r","e","s","s"," ","W","e","i","g","h","s"," ","L","a","n","d","m","a","r","k"," ","A","m","e","n","d","m","e","n","t"," ","a","s"," ","B","i","l","l","i","o","n"," ","i","n"," ","F","e","d","e","r","a","l"," ","A","i","d"," ","S","t","a","l","l","s">>)
  @@ (TitleMayor :>
     <<"M","a","y","o","r",","," ","P","o","l","i","c","e"," ","a","n","d"," ","C","i","t","y"," ","C","o","u","n","c","i","l"," ","C","l","a","s","h"," ","O","v","e","r"," ","H","o","u","s","i","n","g"," ","B","u","d","g","e","t">>)
  @@ (SummaryEmpty.s :>
     <<>>)
  @@ (SummaryAudit.s :>
     <<"A","n"," ","e","x","c","l","u","s","i","v","e"," ","a","u","d","i","t",".">>)
  @@ (SummaryTenants.s :>
     <<"T","e","n","a","n","t","s"," ","a","n","d"," ","l","a","n","d","l","o","r","d","s"," ","f","e","a","r"," ","e","v","i","c","t","i","o","n"," ","a","s"," ","r","e","n","t",","," ","z","o","n","i","n","g"," ","a","n","d"," ","a","f","f","o","r","d","a","b","l","e"," ","h","o","u","s","i","n","g"," ","f","i","g","h","t","s"," ","g","r","o","w",".">>)
  @@ (PubFresh.s :>
     <<"2","0","2","4","-","0","1","-","2","0","T","1","0",":","0","0",":","0","0","+","0","0",":","0","0">>)
  @@ (PubWest.s :>
     <<"2","0","2","4","-","0","1","-","2","0","T","0","9",":","0","0",":","0","0","-","0","5",":","0","0">>)
  @@ (PubZulu.s :>
     <<"2","0","2","4","-","0","1","-","2","0","T","1","0",":","0","0",":","0","0","Z">>)
  @@ (PubTwoDays.s :>
     <<"2","0","2","4","-","0","1","-","1","8","T","1","2",":","0","0",":","0","0","Z">>)
  @@ (PubThree.s :>
     <<"2","0","2","4","-","0","1","-","1","7","T","1","1",":","0","0",":","0","0","Z">>)
  @@ (PubFive.s :>
     <<"2","0","2","4","-","0","1","-","1","5","T","0","0",":","0","0",":","0","0","Z">>)
  @@ (PubEight.s :>
     <<"2","0","2","4","-","0","1","-","1","2","T","1","2",":","0","0",":","0","0","Z">>)
  @@ (PubTen.s :>
     <<"2","0","2","4","-","0","1","-","1","0","T","1","2",":","0","0",":","0","0","Z">>)
  @@ (PubFuture.s :>
     <<"2","0","2","4","-","0","1","-","2","5","T","1","2",":","0","0",":","0","0","Z">>)
  @@ (PubNaive.s :>
     <<"2","0","2","4","-","0","1","-","1","9","T","1","0",":","0","0",":","0","0">>)
  @@ (PubWords.s :>
     <<"y","e","s","t","e","r","d","a","y">>)
  @@ ("None" :>
     <<"N","o","n","e">>)

\* the ASCII characters 32 (" ") to 95 ("_") and 97 ("a") to 122 ("z"), in
\* code order
AsciiLow ==
  << " ", "!", "\"", "#", "$", "%", "&", "'", "(", ")", "*", "+", ",", "-", ".", "/",
     "0", "1", "2", "3", "4", "5", "6", "7", "8", "9", ":", ";", "<", "=", ">", "?",
     "@", "A", "B", "C", "D", "E", "F", "G", "H", "I", "J", "K", "L", "M", "N", "O",
     "P", "Q", "R", "S", "T", "U", "V", "W", "X", "Y", "Z", "[", "\\", "]", "^", "_" >>

AsciiLetters ==
  << "a", "b", "c", "d", "e", "f", "g", "h", "i", "j", "k", "l", "m",
     "n", "o", "p", "q", "r", "s", "t", "u", "v", "w", "x", "y", "z" >>

\* ord(c)
Ord ==
  [c \in {AsciiLow[i] : i \in DOMAIN AsciiLow} \cup Letters |->
     IF c \in Letters THEN 96 + CHOOSE i \in DOMAIN AsciiLetters : AsciiLetters[i] = c
     ELSE 31 + CHOOSE i \in DOMAIN AsciiLow : AsciiLow[i] = c]

\* a < b for two sequences of characters (str comparison)
RECURSIVE chars_lt(_, _)
chars_lt(a, b) ==
  IF a = <<>> THEN b # <<>>
  ELSE IF b = <<>> THEN FALSE
  ELSE IF Head(a) # Head(b) THEN Ord[Head(a)] < Ord[Head(b)]
  ELSE chars_lt(Tail(a), Tail(b))

\* a < b is defined for two str or two int, a TypeError otherwise
Comparable(a, b) == a.type = b.type /\ a.type \in {"str", "int"}

\* a < b for comparable values
py_lt(a, b) == IF a.type = "int" THEN a.n < b.n ELSE chars_lt(Chars[a.s], Chars[b.s])

\* text.replace("Z", "+00:00")
RECURSIVE replace_Z(_)
replace_Z(t) ==
  IF t = <<>> THEN <<>>
  ELSE IF Head(t) = "Z" THEN <<"+","0","0",":","0","0">> \o replace_Z(Tail(t))
  ELSE <<Head(t)>> \o replace_Z(Tail(t))

\* the number written by the two or four digits of t from position i
Num2(t, i) == 10 * (Ord[t[i]] - 48) + (Ord[t[i + 1]] - 48)

Num4(t, i) == 100 * Num2(t, i) + Num2(t, i + 2)

IsLeap(y) == y % 4 = 0 /\ (y % 100 # 0 \/ y % 400 = 0)

DaysInMonth(y, m) ==
  IF m = 2 THEN (IF IsLeap(y) THEN 29 ELSE 28)
  ELSE IF m \in {4, 6, 9, 11} THEN 30 ELSE 31

RECURSIVE DaysBeforeMonth(_, _)
DaysBeforeMonth(y, m) == IF m = 1 THEN 0 ELSE DaysBeforeMonth(y, m - 1) + DaysInMonth(y, m - 1)

\* days from 0001-01-01 to the first day of year y
DaysBeforeYear(y) == (y - 1) * 365 + ((y - 1) \div 4) - ((y - 1) \div 100) + ((y - 1) \div 400)

\* seconds from 2024-01-01T00:00:00 to the wall-clock time y-m-d h:mi:s
WallSeconds(y, m, d, h, mi, s) ==
  (DaysBeforeYear(y) + DaysBeforeMonth(y, m) + d - 1 - DaysBeforeYear(2024)) * 86400
  + h * 3600 + mi * 60 + s

\* datetime.fromisoformat(t) for the forms "YYYY-MM-DD?HH:MM:SS" and
\* "YYYY-MM-DD?HH:MM:SS+HH:MM" / "-HH:MM"; every other text is a ValueError.
\* t is the instant (or, without offset, the wall-clock time) in seconds
\* since 2024-01-01T00:00:00 UTC.
parse_iso(t) ==
  LET digitsAt(P) == \A i \in P : t[i] \in Digits
      shape == /\ Len(t) \in {19, 25}
               /\ digitsAt({1, 2, 3, 4, 6, 7, 9, 10, 12, 13, 15, 16, 18, 19})
               /\ t[5] = "-" /\ t[8] = "-" /\ t[14] = ":" /\ t[17] = ":"
               /\ Len(t) = 25 => /\ t[20] \in {"+", "-"}
                                 /\ digitsAt({21, 22, 24, 25})
                                 /\ t[23] = ":"
      y == Num4(t, 1)
      m == Num2(t, 6)
      d == Num2(t, 9)
      h == Num2(t, 12)
      mi == Num2(t, 15)
      s == Num2(t, 18)
      fields == /\ y >= 1 /\ m \in 1..12 /\ d >= 1 /\ d <= DaysInMonth(y, m)
                /\ h < 24 /\ mi < 60 /\ s < 60
                /\ Len(t) = 25 => (Num2(t, 21) < 24 /\ Num2(t, 24) < 60)
      offset == (IF t[20] = "-" THEN -1 ELSE 1) * (Num2(t, 21) * 3600 + Num2(t, 24) * 60)
  IN  IF ~shape THEN [raise |-> "ValueError"]
      ELSE IF ~fields THEN [raise |-> "ValueError"]
      ELSE IF Len(t) = 19
           THEN [raise |-> "none", aware |-> FALSE, t |-> WallSeconds(y, m, d, h, mi, s)]
           ELSE [raise |-> "none", aware |-> TRUE,
                 t |-> WallSeconds(y, m, d, h, mi, s) - offset]

\* datetime.fromisoformat(p.replace("Z", "+00:00")); a value that is not a
\* str has no replace
fromisoformat(p) ==
  IF p.type # "str" THEN [raise |-> "AttributeError"]
  ELSE parse_iso(replace_Z(Chars[p.s]))

\* ------------------------------------------------------------ numbers
Min(a, b) == IF a < b THEN a ELSE b

Max(a, b) == IF a > b THEN a ELSE b

\* round(n / d) for d > 0, ties to even (round() on the exact quotient)
RoundDiv(n, d) ==
  LET q == n \div d
      r == n % d
  IN  IF 2 * r < d THEN q
      ELSE IF 2 * r > d THEN q + 1
      ELSE IF q % 2 = 0 THEN q ELSE q + 1

RECURSIVE SumOver(_, _)
SumOver(f, S) == IF S = {} THEN 0 ELSE LET k == CHOOSE k \in S : TRUE IN f[k] + SumOver(f, S \ {k})

\* list.sort(key=...) is stable: an element ends after every other element
\* that sorts before it and after the equal elements that preceded it
StableSort(seq, Before(_, _)) ==
  LET n == Len(seq)
      pos(i) == 1 + Cardinality({j \in 1..n \ {i} : \/ Before(seq[j], seq[i])
                                                \/ (~Before(seq[i], seq[j]) /\ j < i)})
  IN  [k \in 1..n |-> seq[CHOOSE i \in 1..n : pos(i) = k]]

\* ------------------------------------------------------------- inputs
MaxStories == 3

\* datetime.now(timezone.utc): 2024-01-20T12:00:00 or 2024-01-22T12:00:00, in
\* seconds since 2024-01-01T00:00:00 UTC
NowPool == {WallSeconds(2024, 1, 20, 12, 0, 0), WallSeconds(2024, 1, 22, 12, 0, 0)}

AwarePubs == {PubFresh, PubWest, PubZulu, PubTwoDays, PubThree, PubFive,
              PubEight, PubTen, PubFuture}

\* f"{title} {summary}", as characters
combined_text(title, summary) == Chars[title] \o <<" ">> \o Chars[format(summary)]

Story(title, summary, published) ==
  [title |-> title, summary |-> summary, link |-> "link", source |-> "source",
   county |-> "Bay Area", published |-> published]

\* a dict without the key
Without(s, key) == [k \in DOMAIN s \ {key} |-> s[k]]

StoryPool ==
  { Story(TitleFire,      SummaryEmpty,   PubFresh),
    Story(TitleFireShout, SummaryEmpty,   PubWest),
    Story(TitleRezoning,  SummaryEmpty,   PubFresh),
    Story(TitleParking,   SummaryEmpty,   PubWest),
    Story(TitleExclusive, SummaryEmpty,   PubZulu),
    Story(TitleRuling,    SummaryAudit,   PubThree),
    Story(TitleRuling,    SummaryTenants, PubFive),
    Story(TitleLandmark,  SummaryEmpty,   PubEight),
    Story(TitleLandmark,  SummaryAudit,   PubTen),
    Story(TitleCongress,  SummaryAudit,   PubTwoDays),
    Story(TitleCongress,  SummaryEmpty,   PubFuture),
    Story(TitleMayor,     SummaryEmpty,   PubEight),
    Story(TitleFire,      PyNone,         PubWords),
    Story(TitleExclusive, SummaryEmpty,   PubNaive),
    Story(TitleMayor,     SummaryEmpty,   PyNone),
    Story(TitleFire,      SummaryEmpty,   PyInt(5)),
    Without(Story(TitleRezoning, SummaryEmpty, PubFresh), "summary"),
    Without(Story(TitleParking,  SummaryEmpty, PubFresh), "published") }

PoolTitles == {s.title : s \in StoryPool}

PoolSummaries == {SummaryEmpty, SummaryAudit, SummaryTenants, PyNone}

\* --------------------------------------------------------- annotators
\* the indices k with re.search(patterns[k], text, re.IGNORECASE)
Hits(patterns, text) == {k \in DOMAIN patterns : re_search(patterns[k], text)}

\* the c-th component of every tuple of a list
Column(rows, c) == [k \in DOMAIN rows |-> rows[k][c]]

\* the pattern list of every theme, by theme name
ThemeTables(keywords) ==
  [name \in {keywords[k].name : k \in DOMAIN keywords} |->
     keywords[CHOOSE k \in DOMAIN keywords : keywords[k].name = name].patterns]

\* the pattern lists the three annotators search
PatternTables ==
  ThemeTables(THEME_KEYWORDS)
    @@ ("NATIONAL_KEYWORDS" :> NATIONAL_KEYWORDS)
    @@ ("ENTERPRISE_SIGNALS" :> Column(ENTERPRISE_SIGNALS, 2))

SearchAll(tables, text) == [table \in DOMAIN tables |-> Hits(tables[table], text)]

\* the re.search results of the texts of the pool, evaluated once per text
SearchResults ==
  [text \in {combined_text(t, s) : t \in PoolTitles, s \in PoolSummaries} |->
     SearchAll(PatternTables, text)]

\* the patterns p of the table with re.search(p, text, re.IGNORECASE)
Matching(table, text) == SearchResults[text][table]

\* score = sum(weight for pattern, weight in ENTERPRISE_SIGNALS if re.search(...))
enterprise_score(title, summary) ==
  SumOver(Column(ENTERPRISE_SIGNALS, 1),
          Matching("ENTERPRISE_SIGNALS", combined_text(title, summary)))

\* return score >= ENTERPRISE_THRESHOLD, score
threshold_verdict(score) == <<score >= ENTERPRISE_THRESHOLD, score>>

detect_enterprise(title, summary) == threshold_verdict(enterprise_score(title, summary))

\* score = sum(1 for p in patterns if re.search(p, combined, re.IGNORECASE)),
\* for every theme of THEME_KEYWORDS.items()
theme_scores(keywords, combined) ==
  [k \in DOMAIN keywords |-> Cardinality(Matching(keywords[k].name, combined))]

\* if score >= 1: themes.append({"name": theme, "strength": ...})
themes_scored(keywords, score) ==
  LET hit == SelectSeq([k \in DOMAIN keywords |-> k], LAMBDA k : score[k] >= 1)
  IN  [i \in DOMAIN hit |-> [name |-> keywords[hit[i]].name, strength |-> score[hit[i]]]]

themes_matched(keywords, combined) ==
  themes_scored(keywords, theme_scores(keywords, combined))

\* "strength": min(score, 5)
capped(themes) == [i \in DOMAIN themes |-> [themes[i] EXCEPT !.strength = Min(@, 5)]]

\* themes.sort(key=lambda t: -t["strength"])
by_strength(themes) == StableSort(themes, LAMBDA a, b : -a.strength < -b.strength)

\* tag_themes without the cap min(score, 5)
tag_themes_uncapped(title, summary) ==
  by_strength(themes_matched(THEME_KEYWORDS, combined_text(title, summary)))

\* tag_themes without themes.sort(...)
tag_themes_unsorted(title, summary) ==
  capped(themes_matched(THEME_KEYWORDS, combined_text(title, summary)))

tag_themes(title, summary) ==
  by_strength(capped(themes_matched(THEME_KEYWORDS, combined_text(title, summary))))

\* score += 2 for every pattern of NATIONAL_KEYWORDS found
keyword_score(title, summary) ==
  2 * Cardinality(Matching("NATIONAL_KEYWORDS", combined_text(title, summary)))

\* max((t["strength"] for t in themes), default=0)
max_strength(themes) ==
  IF themes = <<>> THEN 0
  ELSE CHOOSE m \in {themes[i].strength : i \in DOMAIN themes} :
         \A i \in DOMAIN themes : themes[i].strength <= m

\* the three score += 1 of lines 157-162
theme_bonus(themes) ==
  (IF Len(themes) >= 2 THEN 1 ELSE 0)
  + (IF Len(themes) >= 3 THEN 1 ELSE 0)
  + (IF max_strength(themes) >= 3 THEN 1 ELSE 0)

\* score_national returning score instead of min(score, 10)
score_national_unclamped(title, summary, themes) ==
  keyword_score(title, summary) + theme_bonus(themes)

score_national(title, summary, themes) ==
  Min(keyword_score(title, summary) + theme_bonus(themes), 10)

\* re.sub(r"[^a-z0-9]", "", title.lower())
normalize(title) == SelectSeq(lower(Chars[title]), LAMBDA c : c \in Letters \cup Digits)

\* fetch_all_feeds: re.sub(r"[^a-z0-9]", "", s["title"].lower())[:60]
fetch_key(title) == SubSeq(normalize(title), 1, Min(60, Len(normalize(title))))

\* age without max(0, ...)
age_seconds_signed(now_, pub_t) == now_ - pub_t

\* (now - pub_dt).total_seconds(), floored at 0 by max(0, ...): the age in seconds
age_seconds(now_, pub_t) == Max(0, now_ - pub_t)

\* the penalty applied only between 2 and 8 days
recency_penalty_window(age) ==
  IF age > 2 * 86400 /\ age < 8 * 86400 THEN age - 2 * 86400 ELSE 0

\* recency_penalty in units of 1/172800 point for an age in seconds:
\* (age_days - 2) * 0.5 = (age - 172800) / 172800, and 3.0 = 518400 / 172800
recency_penalty(age) == IF age > 2 * 86400 THEN Min(age - 2 * 86400, 3 * 172800) ELSE 0

\* lines 198-213: rank_score and the dict appended for a story of this age
ranked_record(s, themes, nat_score, is_ent, age) ==
  [raise |-> "none",
   rec |-> [title |-> s.title, summary |-> s.summary, link |-> s.link,
            source |-> s.source, county |-> s.county,
            published |-> s.published,
            themes |-> themes,
            nationalSignificance |-> nat_score,
            isEnterprise |-> is_ent,
            ageDays |-> RoundDiv(age, 8640),
            rankScore |-> RoundDiv(nat_score * 172800 - recency_penalty(age), 1728)]]

\* lines 188-192: pub_dt is the parsed date, or now after a ValueError or an
\* AttributeError; now - pub_dt is a TypeError for a pub_dt without offset
dated_record(s, now_, themes, nat_score, is_ent, parsed) ==
  IF parsed.raise \in {"ValueError", "AttributeError"}
  THEN ranked_record(s, themes, nat_score, is_ent, age_seconds(now_, now_))
  ELSE IF ~parsed.aware THEN [raise |-> "TypeError"]
  ELSE ranked_record(s, themes, nat_score, is_ent, age_seconds(now_, parsed.t))

\* lines 181-182: if is_ent: nat_score = min(nat_score + 2, 10)
boosted(nat_score, is_ent) == IF is_ent THEN Min(nat_score + 2, 10) ELSE nat_score

\* lines 178-191, after the themes are tagged
themed_record(s, now_, themes, base, is_ent) ==
  IF "published" \notin DOMAIN s THEN [raise |-> "KeyError"]
  ELSE dated_record(s, now_, themes, boosted(base, is_ent), is_ent,
                    fromisoformat(s.published))

tagged_record(s, now_, themes) ==
  themed_record(s, now_, themes, score_national(s.title, s.summary, themes),
                detect_enterprise(s.title, s.summary)[1])

\* lines 177-213: the record built for one story, or the exception raised
story_record(s, now_) ==
  IF "summary" \notin DOMAIN s THEN [raise |-> "KeyError"]
  ELSE tagged_record(s, now_, tag_themes(s.title, s.summary))

\* append with is_ent left over from the previous iteration
append_processed_stale(list, s, now_) ==
  LET rec == story_record(s, now_).rec
      prev == list # <<>> /\ list[Len(list)].isEnterprise
  IN  Append(list, [rec EXCEPT !.isEnterprise = rec.isEnterprise \/ prev])

\* processed.append({...})
append_processed(list, s, now_) == Append(list, story_record(s, now_).rec)

\* processed.sort(key=lambda x: x["published"], reverse=True)
sort_published(list) ==
  StableSort(list, LAMBDA a, b : py_lt(b.published, a.published))

\* processed.sort(key=lambda x: -x["rankScore"])
sort_rank(list) == StableSort(list, LAMBDA a, b : -a.rankScore < -b.rankScore)

\* ----------------------------------------------------------- fetch_rss
\* the feeds of the model: the first NumFeeds entries of the registry
NumFeeds == 3

\* ThreadPoolExecutor(max_workers=10), scaled to the feeds of the model
MaxWorkers == 2

\* source_name of the first entries of RSS_FEEDS
RSS_FEEDS == <<"SFGate", "SF Chronicle", "Mission Local", "SFist", "SF Standard">>

Feeds == 1..NumFeeds

\* what one call of fetch_one_feed does: an exception leaves it, or it returns
\* the stories it appended (none after a feed error), given here by title
FeedOutcomes ==
  { [raise |-> TRUE,  titles |-> <<>>],
    [raise |-> FALSE, titles |-> <<>>],
    [raise |-> FALSE, titles |-> <<TitleFire>>],
    [raise |-> FALSE, titles |-> <<TitleFireShout, TitleMayor>>],
    [raise |-> FALSE, titles |-> <<TitleRezoning, TitleParking>>] }

\* the list fetch_one_feed returns: stories.append({...}) per entry
fetch_one_feed(source_name, outcome) ==
  [k \in DOMAIN outcome.titles |->
     [Story(outcome.titles[k], SummaryEmpty, PubFresh) EXCEPT !.source = source_name]]

\* all_stories.extend(stories) that starts over after an empty result
extended_reset(all, more) == IF more = <<>> THEN <<>> ELSE all \o more

\* all_stories.extend(stories)
extended(all, more) == all \o more

\* "for s in ...: if key not in seen: seen.add(key); unique.append(s)" that
\* forgets a key when it drops a story
RECURSIVE dedup_loop_forgetful(_, _, _, _, _)
dedup_loop_forgetful(list, keys, i, seen, kept) ==
  IF i > Len(list) THEN kept
  ELSE IF keys[i] \in seen
       THEN dedup_loop_forgetful(list, keys, i + 1, seen \ {keys[i]}, kept)
       ELSE dedup_loop_forgetful(list, keys, i + 1, seen \cup {keys[i]}, Append(kept, list[i]))

\* "for s in ...: if key not in seen: seen.add(key); unique.append(s)" from
\* position i, keys[k] being the key of list[k]
RECURSIVE dedup_loop(_, _, _, _, _)
dedup_loop(list, keys, i, seen, kept) ==
  IF i > Len(list) THEN kept
  ELSE IF keys[i] \in seen
       THEN dedup_loop(list, keys, i + 1, seen, kept)
       ELSE dedup_loop(list, keys, i + 1, seen \cup {keys[i]}, Append(kept, list[i]))

\* the dedup loop of fetch_all_feeds, keyed by the first 60 characters
fetch_dedup(list) ==
  dedup_loop(list, [k \in DOMAIN list |-> fetch_key(list[k].title)], 1, {}, <<>>)

\* the seen-titles filter of process_stories, keyed by the whole key
digest_dedup(list) ==
  dedup_loop(list, [k \in DOMAIN list |-> normalize(list[k].title)], 1, {}, <<>>)

\* -------------------------------------------------------------- state
VARIABLES
  stories,       \* the argument of process_stories
  now,           \* now = datetime.now(timezone.utc), in seconds
  pc,            \* "idle", "loop", "done" (returned) or "raised"
  idx,           \* position of the for loop in stories
  seen_titles,
  processed,
  exc,           \* the exception that left process_stories, or "none"
  feed_outcome,  \* what fetch_one_feed does for every feed
  status,        \* every future: "queued", "running", "done" or "collected"
  all_stories,
  succeeded,
  failed,
  unique,
  fpc            \* fetch_all_feeds: "off", "gather" or "returned"

digest_vars == <<stories, now, pc, idx, seen_titles, processed, exc>>

fetch_vars == <<feed_outcome, status, all_stories, succeeded, failed, unique, fpc>>

vars == <<stories, now, pc, idx, seen_titles, processed, exc,
          feed_outcome, status, all_stories, succeeded, failed, unique, fpc>>

Batches == UNION {[1..n -> StoryPool] : n \in 0..MaxStories}

Init ==
  /\ stories \in Batches
  /\ now \in NowPool
  /\ pc = "loop"
  /\ idx = 1
  /\ seen_titles = {}
  /\ processed = <<>>
  /\ exc = "none"
  /\ feed_outcome = [f \in Feeds |-> [raise |-> FALSE, titles |-> <<>>]]
  /\ status = [f \in Feeds |-> "queued"]
  /\ all_stories = <<>>
  /\ succeeded = 0
  /\ failed = 0
  /\ unique = <<>>
  /\ fpc = "off"

\* one iteration of "for s in stories"
ProcessStory ==
  /\ pc = "loop"
  /\ idx <= Len(stories)
  /\ LET s == stories[idx]
         norm == normalize(s.title)
         raised == story_record(s, now).raise
     IN  IF norm \in seen_titles
         THEN /\ idx' = idx + 1
              /\ UNCHANGED <<pc, seen_titles, processed, exc>>
         ELSE /\ seen_titles' = seen_titles \cup {norm}
              /\ IF raised # "none"
                 THEN /\ pc' = "raised"
                      /\ exc' = raised
                      /\ UNCHANGED <<idx, processed>>
                 ELSE /\ processed' = append_processed(processed, s, now)
                      /\ idx' = idx + 1
                      /\ UNCHANGED <<pc, exc>>
  /\ UNCHANGED <<stories, now>>
  /\ UNCHANGED fetch_vars

\* the two sorts after the loop, and the return
SortAndReturn ==
  /\ pc = "loop"
  /\ idx > Len(stories)
  /\ IF \E i, j \in DOMAIN processed :
          i # j /\ ~Comparable(processed[i].published, processed[j].published)
     THEN /\ pc' = "raised"
          /\ exc' = "TypeError"
          /\ UNCHANGED processed
     ELSE /\ processed' = sort_rank(sort_published(processed))
          /\ pc' = "done"
          /\ UNCHANGED exc
  /\ UNCHANGED <<stories, now, idx, seen_titles>>
  /\ UNCHANGED fetch_vars

Next == ProcessStory \/ SortAndReturn

Spec == Init /\ [][Next]_vars

\* ------------------------------------------------- the two scripts in turn
\* fetch_all_feeds after every feed is submitted; process_stories not yet called
PipelineInit ==
  /\ feed_outcome \in [Feeds -> FeedOutcomes]
  /\ status = [f \in Feeds |-> "queued"]
  /\ all_stories = <<>>
  /\ succeeded = 0
  /\ failed = 0
  /\ unique = <<>>
  /\ fpc = "gather"
  /\ stories = <<>>
  /\ now = 0
  /\ pc = "idle"
  /\ idx = 1
  /\ seen_titles = {}
  /\ processed = <<>>
  /\ exc = "none"

Running == {f \in Feeds : status[f] = "running"}

\* a free worker thread takes the oldest work item of the queue
StartWorker(f) ==
  /\ status[f] = "queued"
  /\ \A g \in Feeds : g < f => status[g] # "queued"
  /\ Cardinality(Running) < MaxWorkers
  /\ status' = [status EXCEPT ![f] = "running"]
  /\ UNCHANGED <<feed_outcome, all_stories, succeeded, failed, unique, fpc>>
  /\ UNCHANGED digest_vars

\* fetch_one_feed returns or raises in its worker thread
FinishWorker(f) ==
  /\ status[f] = "running"
  /\ status' = [status EXCEPT ![f] = "done"]
  /\ UNCHANGED <<feed_outcome, all_stories, succeeded, failed, unique, fpc>>
  /\ UNCHANGED digest_vars

\* one iteration of "for future in as_completed(futures)"
Collect(f) ==
  /\ fpc = "gather"
  /\ status[f] = "done"
  /\ status' = [status EXCEPT ![f] = "collected"]
  /\ LET outcome == feed_outcome[f]
     IN  IF outcome.raise
         THEN /\ failed' = failed + 1
              /\ UNCHANGED <<all_stories, succeeded>>
         ELSE /\ all_stories' = extended(all_stories, fetch_one_feed(RSS_FEEDS[f], outcome))
              /\ IF outcome.titles # <<>>
                 THEN succeeded' = succeeded + 1 /\ UNCHANGED failed
                 ELSE failed' = failed + 1 /\ UNCHANGED succeeded
  /\ UNCHANGED <<feed_outcome, unique, fpc>>
  /\ UNCHANGED digest_vars

\* the end of the with block, the dedup loop and "return unique"
DedupAndReturn ==
  /\ fpc = "gather"
  /\ \A f \in Feeds : status[f] = "collected"
  /\ unique' = fetch_dedup(all_stories)
  /\ fpc' = "returned"
  /\ UNCHANGED <<feed_outcome, status, all_stories, succeeded, failed>>
  /\ UNCHANGED digest_vars

\* process_digest reads the stories fetch_rss wrote and calls process_stories
LoadStories ==
  /\ fpc = "returned"
  /\ pc = "idle"
  /\ stories' = unique
  /\ now' \in NowPool
  /\ pc' = "loop"
  /\ UNCHANGED <<idx, seen_titles, processed, exc>>
  /\ UNCHANGED fetch_vars

FetchNext ==
  \/ \E f \in Feeds : StartWorker(f)
  \/ \E f \in Feeds : FinishWorker(f)
  \/ \E f \in Feeds : Collect(f)
  \/ DedupAndReturn

PipelineNext == FetchNext \/ LoadStories \/ ProcessStory \/ SortAndReturn

Pipeline == PipelineInit /\ [][PipelineNext]_vars


\* ------------------------------------------------------------- claims
\* a timezone-aware ISO-8601 string (trailing "Z" or numeric offset)
IsAware(p) ==
  LET parsed == fromisoformat(p)
  IN  p.type = "str" /\ parsed.raise = "none" /\ parsed.aware

\* the instant of an aware published value, in seconds
Instant(p) == fromisoformat(p).t

\* the input fields of an output record
RawOf(r) == Story(r.title, r.summary, r.published)

\* stories[k] is the first record of the batch with its dedup key
FirstOfKey(k) ==
  \A m \in 1..(k - 1) : normalize(stories[m].title) # normalize(stories[k].title)

AllSummariesPresent == \A k \in DOMAIN stories : "summary" \in DOMAIN stories[k]

AllPublishedAware ==
  \A k \in DOMAIN stories :
    "published" \in DOMAIN stories[k] /\ IsAware(stories[k].published)

\* the unclamped base sum of a record: 2 per matching national pattern and
\* the three theme bonuses
BaseSum(r) ==
  2 * Cardinality(Matching("NATIONAL_KEYWORDS", combined_text(r.title, r.summary)))
  + (IF Len(r.themes) >= 2 THEN 1 ELSE 0)
  + (IF Len(r.themes) >= 3 THEN 1 ELSE 0)
  + (IF \E i \in DOMAIN r.themes : r.themes[i].strength >= 3 THEN 1 ELSE 0)

\* the sum of the weights of the matching enterprise signals
EnterpriseWeight(r) ==
  LET hits == Matching("ENTERPRISE_SIGNALS", combined_text(r.title, r.summary))
  IN  2 * Cardinality({k \in hits : ENTERPRISE_SIGNALS[k][1] = 2})
      + Cardinality({k \in hits : ENTERPRISE_SIGNALS[k][1] = 1})

\* number of patterns of category k that match the text of r
ThemeCount(r, k) ==
  Cardinality(Matching(THEME_KEYWORDS[k].name, combined_text(r.title, r.summary)))

CategoryIndex(name) == CHOOSE k \in DOMAIN THEME_KEYWORDS : THEME_KEYWORDS[k].name = name

\* C1: in the returned list every adjacent pair (A, B) has rankScore(A) >
\* rankScore(B), or equal rankScore and published instant of A at or after
\* that of B, for batches whose published values are aware ISO timestamps.
C1_OrderingLaw ==
  (pc = "done" /\ AllPublishedAware) =>
    \A i \in 1..(Len(processed) - 1) :
      LET A == processed[i]
          B == processed[i + 1]
      IN  \/ A.rankScore > B.rankScore
          \/ (A.rankScore = B.rankScore /\ Instant(A.published) >= Instant(B.published))

\* C2: the output has exactly one record per distinct 60-character
\* normalized title key of the input (the key of fetch_all_feeds), and it is
\* the first input record with that key.
C2_OnePerTruncatedKey ==
  pc = "done" =>
    /\ \A i, j \in DOMAIN processed :
         i # j => fetch_key(processed[i].title) # fetch_key(processed[j].title)
    /\ {fetch_key(processed[i].title) : i \in DOMAIN processed}
         = {fetch_key(stories[k].title) : k \in DOMAIN stories}
    /\ \A i \in DOMAIN processed :
         \E k \in DOMAIN stories :
           /\ stories[k] = RawOf(processed[i])
           /\ \A m \in 1..(k - 1) :
                fetch_key(stories[m].title) # fetch_key(stories[k].title)

\* C3: a record whose published value is missing, not a string or not an
\* aware ISO timestamp never makes process_stories raise, and is emitted
\* with ageDays = 0 and rankScore = nationalSignificance.
C3_BadPublishedIsNow ==
  AllSummariesPresent =>
    /\ pc # "raised"
    /\ pc = "done" =>
         \A k \in DOMAIN stories :
           (FirstOfKey(k) /\ ~("published" \in DOMAIN stories[k]
                               /\ IsAware(stories[k].published))) =>
             \E i \in DOMAIN processed :
               /\ processed[i].title = stories[k].title
               /\ processed[i].ageDays = 0
               /\ processed[i].rankScore = 100 * processed[i].nationalSignificance

\* C4: a record whose summary is absent or None never makes process_stories
\* raise, and its themes, isEnterprise and nationalSignificance are those of
\* the same record with summary "".
C4_MissingSummaryIsEmpty ==
  AllPublishedAware =>
    /\ pc # "raised"
    /\ pc = "done" =>
         \A k \in DOMAIN stories :
           (FirstOfKey(k) /\ ("summary" \notin DOMAIN stories[k]
                              \/ stories[k].summary.type = "NoneType")) =>
             \E i \in DOMAIN processed :
               LET r == processed[i]
                   e == story_record(Story(stories[k].title, SummaryEmpty,
                                           stories[k].published), now).rec
               IN  /\ r.title = stories[k].title
                   /\ r.themes = e.themes
                   /\ r.isEnterprise = e.isEnterprise
                   /\ r.nationalSignificance = e.nationalSignificance

\* C5: nationalSignificance = min(S + B, 10) with S the unclamped base sum
\* and B = 2 iff the enterprise weight sum is at least 3 (isEnterprise).
C5_BoostThenClamp ==
  \A i \in DOMAIN processed :
    LET r == processed[i]
        B == IF EnterpriseWeight(r) >= 3 THEN 2 ELSE 0
    IN  /\ r.isEnterprise = (EnterpriseWeight(r) >= 3)
        /\ r.nationalSignificance = Min(BaseSum(r) + B, 10)

\* an output with enterprise stories of base sum 9, 10 and above 10
C5_Witness ==
  /\ pc = "done"
  /\ \A S \in {9, 10, 13} :
       \E i \in DOMAIN processed :
         processed[i].isEnterprise /\ BaseSum(processed[i]) = S

\* C6: 0 <= nationalSignificance <= 10, the recency penalty is in [0, 3.0]
\* (nationalSignificance - 3 <= rankScore <= nationalSignificance), and
\* every theme has 1 <= strength <= 5.
C6_ScoreBounds ==
  \A i \in DOMAIN processed :
    LET r == processed[i]
        pub_t == IF IsAware(r.published) THEN Instant(r.published) ELSE now
        penalty == recency_penalty(age_seconds(now, pub_t))
    IN  /\ 0 <= r.nationalSignificance /\ r.nationalSignificance <= 10
        /\ 0 <= penalty /\ penalty <= 3 * 172800
        /\ 100 * r.nationalSignificance - 300 <= r.rankScore
        /\ r.rankScore <= 100 * r.nationalSignificance
        /\ \A t \in DOMAIN r.themes :
             1 <= r.themes[t].strength /\ r.themes[t].strength <= 5

\* an output with a theme at the cap (7 matching patterns), a score at 10
\* and a penalty at 3.0
C6_Witness ==
  /\ pc = "done"
  /\ \E i \in DOMAIN processed :
       /\ processed[i].nationalSignificance = 10
       /\ \E t \in DOMAIN processed[i].themes :
            /\ processed[i].themes[t].strength = 5
            /\ ThemeCount(processed[i], CategoryIndex(processed[i].themes[t].name)) > 5
  /\ \E i \in DOMAIN processed :
       processed[i].rankScore = 100 * processed[i].nationalSignificance - 300

\* C7: with a valid published timestamp the age is max(0, now - published);
\* the penalty is 0 up to 2 days, (age - 2) * 0.5 between 2 and 8 days and
\* 3.0 from 8 days on; a story 10 days old has ageDays 10.0 and penalty 3.0.
C7_RecencyDecay ==
  \A i \in DOMAIN processed :
    LET r == processed[i]
        d == now - Instant(r.published)
        nat == r.nationalSignificance
    IN  IsAware(r.published) =>
          /\ d <= 0 => (r.ageDays = 0 /\ r.rankScore = 100 * nat)
          /\ d > 0 => r.ageDays = RoundDiv(10 * d, 86400)
          /\ d <= 2 * 86400 => r.rankScore = 100 * nat
          /\ (2 * 86400 < d /\ d < 8 * 86400) =>
               r.rankScore = RoundDiv(100 * (2 * 86400 * nat - (d - 2 * 86400)), 2 * 86400)
          /\ d >= 8 * 86400 => r.rankScore = 100 * nat - 300
          /\ d = 10 * 86400 => (r.ageDays = 100 /\ r.rankScore = 100 * nat - 300)

\* an output with a story from the future, one 5.5 days old and one 10 days old
C7_Witness ==
  /\ pc = "done"
  /\ \E i \in DOMAIN processed :
       IsAware(processed[i].published) /\ Instant(processed[i].published) > now
  /\ \E i \in DOMAIN processed :
       /\ IsAware(processed[i].published)
       /\ now - Instant(processed[i].published) = 11 * 43200
       /\ processed[i].rankScore = 100 * processed[i].nationalSignificance - 175
  /\ \E i \in DOMAIN processed :
       /\ IsAware(processed[i].published)
       /\ now - Instant(processed[i].published) = 10 * 86400

\* C8: the same story with a published time that makes it older (both ages
\* above 2 days) has a rankScore less than or equal.
C8_MonotoneDecay ==
  pc = "done" =>
    \A i \in DOMAIN processed :
      LET r == processed[i]
          age == now - Instant(r.published)
      IN  (IsAware(r.published) /\ age > 2 * 86400) =>
            \A q \in AwarePubs :
              now - Instant(q) >= age =>
                story_record(Story(r.title, r.summary, q), now).rec.rankScore <= r.rankScore

\* an output with a story between 2 and 8 days old, for which an older
\* published time below the cap and one above the cap exist
C8_Witness ==
  /\ pc = "done"
  /\ \E i \in DOMAIN processed :
       LET r == processed[i]
       IN  /\ IsAware(r.published)
           /\ now - Instant(r.published) > 2 * 86400
           /\ \E q \in AwarePubs :
                /\ now - Instant(q) > now - Instant(r.published)
                /\ now - Instant(q) < 8 * 86400
                /\ story_record(Story(r.title, r.summary, q), now).rec.rankScore < r.rankScore
           /\ \E q \in AwarePubs : now - Instant(q) > 8 * 86400

\* the output of process_stories for the batch of the single story s
SoloRun(s) == sort_rank(sort_published(append_processed(<<>>, s, now)))

\* C9: the annotations of an output record are those the record gets when
\* it is processed alone with the same now.
C9_OwnFieldsOnly ==
  \A i \in DOMAIN processed : processed[i] = SoloRun(RawOf(processed[i]))[1]

\* an output of three records with different scores that the sorts reordered
C9_Witness ==
  /\ pc = "done"
  /\ Len(processed) = 3
  /\ processed[1].title = stories[3].title
  /\ processed[1].rankScore > processed[2].rankScore
  /\ processed[2].rankScore > processed[3].rankScore
  /\ \E i \in DOMAIN processed : processed[i].isEnterprise
  /\ \E i \in DOMAIN processed : ~processed[i].isEnterprise

\* C10: themes are the categories with a matching pattern, strength =
\* min(number of matching patterns, 5), by strength descending and, for
\* equal strength, in the order of the category table.
C10_ThemeOrder ==
  \A i \in DOMAIN processed :
    LET r == processed[i]
        th == r.themes
    IN  /\ {th[t].name : t \in DOMAIN th}
             = {THEME_KEYWORDS[k].name : k \in {c \in DOMAIN THEME_KEYWORDS : ThemeCount(r, c) >= 1}}
        /\ \A t \in DOMAIN th : th[t].strength = Min(ThemeCount(r, CategoryIndex(th[t].name)), 5)
        /\ \A t, u \in DOMAIN th :
             t < u => \/ th[t].strength > th[u].strength
                      \/ (/\ th[t].strength = th[u].strength
                          /\ CategoryIndex(th[t].name) < CategoryIndex(th[u].name))

\* an output with a record whose themes were reordered by strength, and a
\* record with two themes of equal strength and a capped one
C10_Witness ==
  /\ pc = "done"
  /\ \E i \in DOMAIN processed :
       LET th == processed[i].themes
       IN  /\ Len(th) >= 2
           /\ th[1].strength > th[2].strength
           /\ CategoryIndex(th[1].name) > CategoryIndex(th[2].name)
  /\ \E i \in DOMAIN processed :
       LET th == processed[i].themes
       IN  /\ Len(th) = 3
           /\ th[2].strength = th[3].strength
           /\ ThemeCount(processed[i], CategoryIndex(th[1].name)) > 5

Returned == {f \in Feeds : ~feed_outcome[f].raise}

\* the title keys of the stories the returning feeds produced
ProducedKeys ==
  UNION {{fetch_key(feed_outcome[f].titles[k]) : k \in DOMAIN feed_outcome[f].titles} :
           f \in Returned}

\* C12: at most MaxWorkers feeds are fetched at once and, whatever the
\* completion order and whichever feeds fail or raise, fetch_all_feeds can
\* always go on until it returns; it returns after every worker has
\* finished, with every feed counted once (succeeded if it returned
\* stories, failed/empty otherwise) and with a story for exactly the title
\* keys produced by the feeds that returned.
C12_AllFeedsGathered ==
  /\ Cardinality(Running) <= MaxWorkers
  /\ succeeded + failed = Cardinality({f \in Feeds : status[f] = "collected"})
  /\ fpc = "gather" => ENABLED FetchNext
  /\ fpc = "returned" =>
       /\ \A f \in Feeds : status[f] = "collected"
       /\ succeeded = Cardinality({f \in Returned : feed_outcome[f].titles # <<>>})
       /\ failed = NumFeeds - succeeded
       /\ {fetch_key(unique[i].title) : i \in DOMAIN unique} = ProducedKeys

\* fetch_all_feeds has returned after one feed raised and a later feed
\* completed before an earlier one: the batch starts with the later feed's
\* story and still holds a story of the earlier feed
C12_Witness ==
  /\ fpc = "returned"
  /\ \E f \in Feeds : feed_outcome[f].raise
  /\ unique # <<>>
  /\ \E f, g \in Returned :
       /\ f < g
       /\ unique[1].source = RSS_FEEDS[g]
       /\ \E i \in DOMAIN unique : unique[i].source = RSS_FEEDS[f]
====
